---- MODULE Spec2Model ----
(***************************************************************************)
(* Model of package dbh (joexzh/dbh): the insert helpers of helper.go and  *)
(* the insert configuration of config.go.                                  *)
(*                                                                         *)
(* SQL text is a sequence of tokens (Go strings that are written to the    *)
(* output one after another); the text is the concatenation of the tokens. *)
(* A row (a value of the model type T) is an integer identity; Args(t) is  *)
(* the sequence of pointers to its fields.                                 *)
(*                                                                         *)
(* The handle (DbInterface) is the environment: every PrepareContext,      *)
(* stmt.ExecContext and ExecContext call is logged when it is issued and   *)
(* is answered by a separate action that chooses the outcome.              *)
(* The fmt.Println diagnostics guarded by PrintSql write to stdout only    *)
(* and are left out.                                                       *)
(***************************************************************************)
EXTENDS Integers, Sequences, FiniteSets, TLC

VARIABLES
    Mark,                     \* config.Mark of the configuration, by name
    BulkInsertStmtThreshold,  \* config.BulkInsertStmtThreshold
    cache,                    \* config.cache: map[string]string
    call,                     \* the running BulkInsertContext call: its arguments, locals, handle calls
    twin,                     \* a second BulkInsertContext call, run against a copy of the same world
    twinCache,                \* the twin's copy of config.cache
    render,                   \* the last MarkInsertValueSql call: its receiver's Mark, arguments, result
    marked,                   \* the last call of a Mark function: its arguments, result
    cacheMu,                  \* config.cacheMu: sync.RWMutex
    gors,                     \* the goroutines calling the cache methods: position, arguments, result
    handed,                   \* per key, the value the populating GetAndSetCachedSql returned
    scan                      \* a ScanList or QueryContext call: cursor, target list, result

pureVars == <<render, marked>>

lockVars == <<cacheMu, gors, handed>>

scanVars == <<scan>>

vars == <<Mark, BulkInsertStmtThreshold, cache, call, twin, twinCache, render, marked,
          cacheMu, gors, handed, scan>>

(***************************************************************************)
(* Bounds                                                                  *)
(***************************************************************************)
MaxRows == 8        \* longest row list passed to BulkInsertContext
MaxBulk == 3        \* largest bulkSize argument
MaxNonPositive == 1 \* bulkSize arguments go down to -MaxNonPositive
MaxThreshold == 2   \* largest BulkInsertStmtThreshold
MaxCols == 3        \* largest colLen passed to MarkInsertValueSql
MaxRenderRows == 4  \* largest rowLen passed to MarkInsertValueSql
MaxIndex == 12      \* largest global index passed to a Mark function
MaxProcs == 2       \* goroutines calling the cache methods
MaxCtxRows == 4     \* longest list passed together with a context value
MaxCursor == 3      \* most rows a cursor yields
MaxList == 3        \* longest target list handed to ScanList
MaxSharedRows == 2  \* longest list inserted while other goroutines use the cache

Nil == "nil"
Errors == {"e1", "e2"}          \* error values the handle can return
Marks == {"MysqlMark", "PostgresMark", "SqlserverMark"}

(***************************************************************************)
(* The model type of the tests: TestUser                                   *)
(***************************************************************************)
Fields == <<"Id", "Name", "Age">>

Args(t) == [j \in 1..Len(Fields) |-> <<t, Fields[j]>>]

Columns(t) == <<"id", "name", "age">>

TableName(t) == "users"

\* the variadic argument list ...T of n rows
RowList(n) == [k \in 1..n |-> k]

(***************************************************************************)
(* config.go                                                               *)
(***************************************************************************)
Digit(d) ==
    CASE d = 0 -> "0" [] d = 1 -> "1" [] d = 2 -> "2" [] d = 3 -> "3"
      [] d = 4 -> "4" [] d = 5 -> "5" [] d = 6 -> "6" [] d = 7 -> "7"
      [] d = 8 -> "8" [] d = 9 -> "9"

RECURSIVE Itoa(_)
Itoa(n) ==
    IF n < 0 THEN "-" \o Itoa(0 - n)
    ELSE IF n < 10 THEN Digit(n)
    ELSE Itoa(n \div 10) \o Digit(n % 10)

MysqlMark(i, col, row) == "?"

\* variant: numbered from 0
PostgresMark_ZeroBased(i, col, row) == "$" \o Itoa(i)

PostgresMark(i, col, row) == "$" \o Itoa(i + 1)

SqlserverMark(i, col, row) == "@p" \o Itoa(i)

\* the custom generator of TestMarkInsertValueSqlSqlServerStyleSameName
SameNameMark(i, col, row) == IF col = 0 THEN "@id" \o Itoa(row) ELSE "@name"

\* the standard generators and the custom one
MarkFuncs == Marks \cup {"SameNameMark"}

\* c.Mark(i, col, row) for the generator named m
MarkOf(m, i, col, row) ==
    CASE m = "MysqlMark" -> MysqlMark(i, col, row)
      [] m = "PostgresMark" -> PostgresMark(i, col, row)
      [] m = "SqlserverMark" -> SqlserverMark(i, col, row)
      [] m = "SameNameMark" -> SameNameMark(i, col, row)

\* the inner loop of MarkInsertValueSql, from column j of row i
RECURSIVE MarkCols(_, _, _, _)
MarkCols(m, colLen, i, j) ==
    IF j >= colLen THEN <<>>
    ELSE (IF j > 0 THEN <<",">> ELSE <<>>)
         \o <<MarkOf(m, i * colLen + j, j, i)>>
         \o MarkCols(m, colLen, i, j + 1)

\* variant: a group without columns is left empty
RECURSIVE MarkRows_NoNull(_, _, _, _)
MarkRows_NoNull(m, colLen, rowLen, i) ==
    IF i >= rowLen THEN <<>>
    ELSE (IF i > 0 THEN <<",">> ELSE <<>>)
         \o <<"(">>
         \o MarkCols(m, colLen, i, 0)
         \o <<")">>
         \o MarkRows_NoNull(m, colLen, rowLen, i + 1)

\* the outer loop of MarkInsertValueSql, from row i
RECURSIVE MarkRows(_, _, _, _)
MarkRows(m, colLen, rowLen, i) ==
    IF i >= rowLen THEN <<>>
    ELSE (IF i > 0 THEN <<",">> ELSE <<>>)
         \o <<"(">>
         \o MarkCols(m, colLen, i, 0)
         \o (IF colLen = 0 THEN <<"null">> ELSE <<>>)
         \o <<")">>
         \o MarkRows(m, colLen, rowLen, i + 1)

\* markLen := len(c.Mark(0, 0, 0)); b.Grow(2 + (markLen+1)*colLen*rowLen):
\* the bytes reserved before the loops
GrowCap(m, colLen, rowLen) == 2 + (Len(MarkOf(m, 0, 0, 0)) + 1) * colLen * rowLen

\* variant: the row loop starts at 1
MarkInsertValueSql_FromOne(m, colLen, rowLen) == MarkRows(m, colLen, rowLen, 1)

MarkInsertValueSql(m, colLen, rowLen) == MarkRows(m, colLen, rowLen, 0)

\* variant: the map is replaced by one holding the new entry only
Store_Fresh(ch, tableName, sql) == [k \in {tableName} |-> sql]

\* r.cache[tableName] = sql
Store(ch, tableName, sql) ==
    [k \in DOMAIN ch \cup {tableName} |-> IF k = tableName THEN sql ELSE ch[k]]

\* return r.cache[tableName]: the zero value "" for a missing key
Lookup(ch, tableName) == IF tableName \in DOMAIN ch THEN ch[tableName] ELSE ""

\* the else branch of GetAndSetCachedSql: sql := f(); r.cache[tableName] = f();
\* return sql.  results[n] is what the n-th invocation of f returns.
FillOnMiss(ch, tableName, results) ==
    [sql |-> results[1], cache |-> Store(ch, tableName, results[2]), fcalls |-> 2]

\* variant: the supplier runs on a hit and its result is dropped
GetAndSetBody_RunAlways(ch, tableName, results) ==
    IF tableName \in DOMAIN ch
    THEN [sql |-> ch[tableName], cache |-> ch, fcalls |-> 1]
    ELSE FillOnMiss(ch, tableName, results)

\* variant: the supplier is consulted on a hit too
GetAndSetBody_Refill(ch, tableName, results) == FillOnMiss(ch, tableName, results)

\* the body of GetAndSetCachedSql between Lock and Unlock
GetAndSetBody(ch, tableName, results) ==
    IF tableName \in DOMAIN ch
    THEN [sql |-> ch[tableName], cache |-> ch, fcalls |-> 0]
    ELSE FillOnMiss(ch, tableName, results)

\* GetAndSetCachedSql under cacheMu.Lock: f is the text the supplier
\* returns; on a miss the supplier is evaluated for the return value and
\* again for the stored value.
GetAndSetCachedSql(ch, tableName, f) ==
    [sql |-> GetAndSetBody(ch, tableName, <<f, f>>).sql,
     cache |-> GetAndSetBody(ch, tableName, <<f, f>>).cache]

(***************************************************************************)
(* helper.go: the pieces of BulkInsertContext                              *)
(***************************************************************************)
\* strings.Join(elems, sep), as tokens
RECURSIVE Join(_, _)
Join(elems, sep) ==
    IF Len(elems) = 0 THEN <<>>
    ELSE IF Len(elems) = 1 THEN <<elems[1]>>
    ELSE <<elems[1], sep>> \o Join(Tail(elems), sep)

\* fmt.Sprintf("insert into %s (%s) values %s", tableName, strings.Join(cols, ","), values)
\* variant: the column names are joined by ", "
InsertSql_Spaced(tableName, cols, values) ==
    <<"insert into ", tableName, " (">> \o Join(cols, ", ") \o <<") values ">> \o values

InsertSql(tableName, cols, values) ==
    <<"insert into ", tableName, " (">> \o Join(cols, ",") \o <<") values ">> \o values

\* variant: the key is the bare table name
InsertOneKey_Bare(tableName) == tableName

\* tableName+"_insert_one", the cache key of the one-row statement
InsertOneKey(tableName) == tableName \o "_insert_one"

\* variant: a non-positive bulkSize falls back to batches of two rows
NormBulkSize_Two(bulkSize) == IF bulkSize <= 0 THEN 2 ELSE bulkSize

\* if bulkSize <= 0 { bulkSize = 1 }
NormBulkSize(bulkSize) == IF bulkSize <= 0 THEN 1 ELSE bulkSize

\* variant: the quotient must exceed 2
UsePrepared_Three(n, bulkSize) == n \div bulkSize > 2

\* if len(list)/bulkSize >= 2
UsePrepared(n, bulkSize) == n \div bulkSize >= 2

\* end := i + bulkSize; if end > len(list) { end = len(list) }
SliceEnd(i, bulkSize, n) == IF i + bulkSize > n THEN n ELSE i + bulkSize

\* variant: useStmt is not cleared for the short final slice
UseStmtFor_Keep(useStmt, i, bulkSize, n) == useStmt

\* variant: useStmt = false outside the if, so on every iteration
UseStmtFor_Off(useStmt, i, bulkSize, n) == FALSE

\* useStmt after: if end > len(list) { ...; useStmt = false }
UseStmtFor(useStmt, i, bulkSize, n) == IF i + bulkSize > n THEN FALSE ELSE useStmt

\* variant: the offset advances one row too far
NextOffset_Skip(i, bulkSize) == i + bulkSize + 1

\* variant: the offset stays where it is
NextOffset_Stay(i, bulkSize) == i

\* the loop increment i += bulkSize
NextOffset(i, bulkSize) == i + bulkSize

\* for _, t := range _l { vals = append(vals, t.Args()...) }
RECURSIVE FlattenArgs(_)
FlattenArgs(l) ==
    IF Len(l) = 0 THEN <<>> ELSE Args(l[1]) \o FlattenArgs(Tail(l))

\* variant: total = ra instead of total += ra
AddAffected_Assign(total, ra) == ra

\* ra, _ := ret.RowsAffected(); total += ra
AddAffected(total, ra) == total + ra

\* variant: the empty call reports an error
EmptyReturn_Err == [n |-> 0, err |-> "e1"]

\* for len(list) == 0 { return 0, nil }
EmptyReturn == [n |-> 0, err |-> Nil]

\* variant: the error is replaced by a wrapping error
ErrReturn_Wrapped(total, err) == [n |-> 0, err |-> "wrapped"]

\* if err != nil { return 0, err }
ErrReturn(total, err) == [n |-> 0, err |-> err]

\* return total, nil
OkReturn(total) == [n |-> total, err |-> Nil]

\* variant: the error check is dropped
Failed_Never(err) == FALSE

\* err != nil
Failed(err) == err # Nil

\* variant: a result that cannot report its count is taken for a failure
ExecFailed_OnCountErr(r) == Failed(r.err) \/ r.raErr

\* ret, err := ...ExecContext(...); if err != nil: the error of
\* ret.RowsAffected() is dropped (ra, _ :=) and decides nothing
ExecFailed(r) == Failed(r.err)

\* variant: the statement is left open
CloseStmt_Leak(stmt) == stmt

\* the deferred stmt.Close() on return
CloseStmt(stmt) == IF stmt = "open" THEN "closed" ELSE stmt

\* the calls of stmt.Close() so far, the deferred one included when the defer
\* was registered
CloseCalls(closes, stmt) == IF stmt = "nil" THEN closes ELSE closes + 1

(***************************************************************************)
(* helper.go: ScanList and QueryContext.  The result set has the rows      *)
(* 1..rows; the cursor yields the first `yield` of them in order and then  *)
(* rows.Next() returns false, with rows.Err() = cursorErr (nil exactly     *)
(* when yield = rows).  Scan of row errAt fails with scanErr (errAt = 0:   *)
(* no failure).  A list element is an instance: its identity and the row   *)
(* it holds.                                                               *)
(***************************************************************************)
\* the target list before the call: L instances the caller made, holding no row
OldList(L) == [k \in 1..L |-> [id |-> k, val |-> 0]]

\* t := newT[T](): a new instance, id the next unused identity
newT(id) == [id |-> id, val |-> 0]

\* rows.Scan(t.Args()...): the row's values land in t
ScanInto(t, row) == [t EXCEPT !.val = row]

\* variant: every row is appended
StoreAt_AppendOnly(list, i, t) == Append(list, t)

\* if i < len(*list) { (*list)[i] = t } else { *list = append(*list, t) }
StoreAt(list, i, t) == IF i < Len(list) THEN [list EXCEPT ![i + 1] = t] ELSE Append(list, t)

\* a result of QueryContext: the list (nil or not) and the error
QueryResult(list, isNil, err) == [list |-> list, isNil |-> isNil, err |-> err]

\* variant: the rows scanned so far are returned with the error
QueryErrReturn_Partial(list, err) == QueryResult(list, FALSE, err)

\* return nil, err
QueryErrReturn(list, err) == QueryResult(<<>>, TRUE, err)

\* return list, nil
QueryOkReturn(list) == QueryResult(list, FALSE, Nil)

NoScan ==
    [pc |-> "idle", fn |-> "", rows |-> 0, yield |-> 0, cursorErr |-> Nil,
     errAt |-> 0, scanErr |-> Nil, i |-> 0,
     reads |-> 0, list |-> <<>>, list0 |-> <<>>, nextId |-> 0, err |-> Nil,
     ret |-> QueryResult(<<>>, TRUE, Nil), closed |-> FALSE]

\* one pass of the loop of ScanList: rows.Next(), and for a row newT, Scan and
\* the store; the frame after it
ScanStep(c) ==
    IF c.i >= c.yield
    THEN [c EXCEPT !.pc = "scanned", !.err = Nil]
    ELSE LET t == ScanInto(newT(c.nextId), c.i + 1)
         IN  IF Failed(IF c.errAt = c.i + 1 THEN c.scanErr ELSE Nil)
             THEN [c EXCEPT !.pc = "scanned", !.err = c.scanErr, !.reads = @ + 1,
                            !.nextId = @ + 1]
             ELSE [c EXCEPT !.list = StoreAt(c.list, c.i, t), !.i = @ + 1,
                            !.reads = @ + 1, !.nextId = @ + 1]

\* ScanList has returned: to its caller, or into QueryContext, which returns
\* (nil, err) or (list, nil) and closes the rows
AfterScan(c) ==
    IF c.fn = "ScanList" THEN [c EXCEPT !.pc = "done"]
    ELSE IF Failed(c.err)
    THEN [c EXCEPT !.pc = "done", !.ret = QueryErrReturn(c.list, c.err), !.closed = TRUE]
    ELSE [c EXCEPT !.pc = "done", !.ret = QueryOkReturn(c.list), !.closed = TRUE]

(***************************************************************************)
(* Handle calls and their outcomes                                         *)
(***************************************************************************)
NoReturn == [n |-> 0, err |-> Nil]

\* a handle call as issued: op, statement text, the rows and values it carries
Issue(op, query, rows, args) ==
    [op |-> op, query |-> query, rows |-> rows, args |-> args,
     returned |-> FALSE, err |-> Nil, ra |-> 0, raErr |-> FALSE]

\* the outcomes of PrepareContext: a statement or an error
PrepareResults == {[err |-> e, ra |-> 0, raErr |-> FALSE] : e \in Errors \cup {Nil}}

\* the outcomes of an exec of len rows: an error, or a sql.Result whose
\* RowsAffected reports all len rows, or one row fewer (a row the database
\* skipped), or fails (and then yields 0)
ExecResults(len) ==
    {[err |-> e, ra |-> 0, raErr |-> FALSE] : e \in Errors}
    \cup {[err |-> Nil, ra |-> k, raErr |-> FALSE] : k \in {len} \cup ({len - 1} \ {0})}
    \cup {[err |-> Nil, ra |-> 0, raErr |-> TRUE]}

\* the log with its last (pending) call answered by r
Answer(log, r) ==
    [log EXCEPT ![Len(log)] =
        [@ EXCEPT !.returned = TRUE, !.err = r.err, !.ra = r.ra, !.raErr = r.raErr]]

(***************************************************************************)
(* BulkInsertContext as steps between handle calls.  Each step maps the    *)
(* call's frame (and config.cache) to the next frame.                      *)
(***************************************************************************)
EmptyCache == [k \in {} |-> <<>>]

\* context.Background(): no value under ConfigKey
Background == [kind |-> "absent", mark |-> ""]

\* what ctx.Value(ConfigKey) can be: nothing, a value that is not a *config,
\* or a *config with its own Mark
CtxValues ==
    {Background, [kind |-> "other", mark |-> ""]}
    \cup {[kind |-> "config", mark |-> m] : m \in Marks}

\* the nil *config
NilConfig == [kind |-> "nil", mark |-> ""]

\* findFromContext(ctx): the *config under ConfigKey, or nil
findFromContext(ctx) == IF ctx.kind = "config" THEN ctx ELSE NilConfig

\* variant: the row is passed twice
InsertList_Twice(t) == <<t, t>>

\* the variadic list of Insert and InsertContext: the one row t
InsertList(t) == <<t>>

Idle ==
    [pc |-> "idle", list |-> <<>>, bulkSizeArg |-> 0, bulkSize |-> 0,
     tableName |-> "", cols |-> <<>>, i |-> 0, useStmt |-> FALSE, stmt |-> "nil",
     total |-> 0, log |-> <<>>, ret |-> NoReturn, cache0 |-> EmptyCache,
     fn |-> "", ctx |-> Background, closes |-> 0]

\* helper.go 62-91: entry, up to the PrepareContext call (if any)
Enter(list, bulkSizeArg, ch) ==
    LET base == [Idle EXCEPT !.list = list, !.bulkSizeArg = bulkSizeArg, !.cache0 = ch]
    IN  IF Len(list) = 0
        THEN [base EXCEPT !.pc = "done", !.ret = EmptyReturn]
        ELSE LET bulkSize == NormBulkSize(bulkSizeArg)
                 tableName == TableName(list[1])
                 cols == Columns(list[1])
                 f == [base EXCEPT !.bulkSize = bulkSize, !.tableName = tableName, !.cols = cols]
             IN  IF UsePrepared(Len(list), bulkSize)
                 THEN LET prepareSql == InsertSql(tableName, cols,
                                            MarkInsertValueSql(Mark, Len(cols), bulkSize))
                      IN  [f EXCEPT !.pc = "prepare", !.useStmt = TRUE,
                                    !.log = <<Issue("PrepareContext", prepareSql, <<>>, <<>>)>>]
                 ELSE [f EXCEPT !.pc = "loop"]

\* helper.go 86-90: PrepareContext returns
AfterPrepare(c, r) ==
    LET log == Answer(c.log, r)
    IN  IF Failed(r.err)
        THEN [c EXCEPT !.log = log, !.pc = "done", !.ret = ErrReturn(c.total, r.err)]
        ELSE [c EXCEPT !.log = log, !.pc = "loop", !.stmt = "open"]

\* helper.go 92-104, 111-124, 133: the loop test and one iteration up to its
\* exec call, or the return after the last batch
Iterate(c, ch) ==
    LET n == Len(c.list)
    IN  IF ~(c.i < n)
        THEN [call |-> [c EXCEPT !.pc = "done", !.ret = OkReturn(c.total),
                                 !.stmt = CloseStmt(c.stmt),
                                 !.closes = CloseCalls(c.closes, c.stmt)],
              cache |-> ch]
        ELSE LET end == SliceEnd(c.i, c.bulkSize, n)
                 useStmt == UseStmtFor(c.useStmt, c.i, c.bulkSize, n)
                 l == SubSeq(c.list, c.i + 1, end)
                 vals == FlattenArgs(l)
             IN  IF useStmt
                 THEN [call |-> [c EXCEPT !.pc = "exec", !.useStmt = useStmt,
                                   !.log = Append(@, Issue("stmt.ExecContext", <<>>, l, vals))],
                       cache |-> ch]
                 ELSE IF Len(l) = 1
                 THEN LET g == GetAndSetCachedSql(ch, InsertOneKey(c.tableName),
                                   InsertSql(c.tableName, c.cols,
                                       MarkInsertValueSql(Mark, Len(c.cols), 1)))
                      IN  [call |-> [c EXCEPT !.pc = "exec", !.useStmt = useStmt,
                                        !.log = Append(@, Issue("ExecContext", g.sql, l, vals))],
                           cache |-> g.cache]
                 ELSE LET sqlString == InsertSql(c.tableName, c.cols,
                                           MarkInsertValueSql(Mark, Len(c.cols), Len(l)))
                      IN  [call |-> [c EXCEPT !.pc = "exec", !.useStmt = useStmt,
                                        !.log = Append(@, Issue("ExecContext", sqlString, l, vals))],
                           cache |-> ch]

\* helper.go 104-109, 124-129: the exec call returns
AfterExec(c, r) ==
    LET log == Answer(c.log, r)
    IN  IF ExecFailed(r)
        THEN [c EXCEPT !.log = log, !.pc = "done", !.ret = ErrReturn(c.total, r.err),
                       !.stmt = CloseStmt(c.stmt),
                       !.closes = CloseCalls(c.closes, c.stmt)]
        ELSE [c EXCEPT !.log = log, !.pc = "loop",
                       !.total = AddAffected(c.total, r.ra),
                       !.i = NextOffset(c.i, c.bulkSize)]

\* the rows carried by the pending exec call
PendingRows(c) == c.log[Len(c.log)].rows

(***************************************************************************)
(* Specification: one caller issuing BulkInsertContext calls, one after    *)
(* another, on one handle and one configuration.                           *)
(***************************************************************************)
\* the goroutines that call the cache methods
Procs == 1..MaxProcs

\* the cache keys and the statement texts the goroutines use
Keys == {"users_insert_one", "orders_insert_one"}

Texts == {"sqlA", "sqlB"}

\* the suppliers: what the first and the second invocation return
Suppliers == {<<a, b>> : a \in Texts, b \in Texts}

\* a sync.RWMutex nobody holds
Unlocked == [writer |-> 0, readers |-> {}]

\* a goroutine outside every cache method
IdleGor == [pc |-> "idle", op |-> "", key |-> "", sql |-> "", f |-> <<"", "">>,
            hit |-> FALSE, fcalls |-> 0, got |-> ""]

NoRender == [done |-> FALSE, m |-> "", colLen |-> 0, rowLen |-> 0, out |-> <<>>, cap |-> 0]

NoMarked == [done |-> FALSE, m |-> "", i |-> 0, col |-> 0, row |-> 0, out |-> ""]

\* nothing is running: an empty cache, no call, an unlocked mutex
InitRest ==
    /\ cache = EmptyCache
    /\ call = Idle
    /\ twin = Idle
    /\ twinCache = EmptyCache
    /\ render = NoRender
    /\ marked = NoMarked
    /\ cacheMu = Unlocked
    /\ gors = [p \in Procs |-> IdleGor]
    /\ handed = EmptyCache
    /\ scan = NoScan

Init ==
    /\ Mark \in Marks
    /\ BulkInsertStmtThreshold \in 0..MaxThreshold
    /\ InitRest

\* BulkInsertContext(db, ctx, bulkSize, list...) is called
BulkInsertContext ==
    /\ call.pc = "idle"
    /\ \E n \in 0..MaxRows, bulkSize \in (0 - MaxNonPositive)..MaxBulk :
          call' = [Enter(RowList(n), bulkSize, cache) EXCEPT !.fn = "BulkInsertContext"]
    /\ UNCHANGED scanVars
    /\ UNCHANGED <<Mark, BulkInsertStmtThreshold, cache, twin, twinCache>>
    /\ UNCHANGED <<pureVars, lockVars>>

\* db.PrepareContext returns
PrepareReturn ==
    /\ call.pc = "prepare"
    /\ \E r \in PrepareResults : call' = AfterPrepare(call, r)
    /\ UNCHANGED scanVars
    /\ UNCHANGED <<Mark, BulkInsertStmtThreshold, cache, twin, twinCache>>
    /\ UNCHANGED <<pureVars, lockVars>>

\* the loop runs up to the next exec call, or the function returns
LoopIter ==
    /\ call.pc = "loop"
    /\ LET s == Iterate(call, cache)
       IN  /\ call' = s.call
           /\ cache' = s.cache
    /\ UNCHANGED scanVars
    /\ UNCHANGED <<Mark, BulkInsertStmtThreshold, twin, twinCache>>
    /\ UNCHANGED <<pureVars, lockVars>>

\* stmt.ExecContext or db.ExecContext returns
ExecReturn ==
    /\ call.pc = "exec"
    /\ \E r \in ExecResults(Len(PendingRows(call))) : call' = AfterExec(call, r)
    /\ UNCHANGED scanVars
    /\ UNCHANGED <<Mark, BulkInsertStmtThreshold, cache, twin, twinCache>>
    /\ UNCHANGED <<pureVars, lockVars>>

\* the caller takes the result; the frame is gone
Return ==
    /\ call.pc = "done"
    /\ call' = Idle
    /\ UNCHANGED scanVars
    /\ UNCHANGED <<Mark, BulkInsertStmtThreshold, cache, twin, twinCache>>
    /\ UNCHANGED <<pureVars, lockVars>>

Next == BulkInsertContext \/ PrepareReturn \/ LoopIter \/ ExecReturn \/ Return

Spec == Init /\ [][Next]_vars

\* every handle call returns, and the code between two handle calls runs
SpecLive ==
    /\ Init
    /\ [][Next]_vars
    /\ WF_vars(PrepareReturn)
    /\ WF_vars(LoopIter)
    /\ WF_vars(ExecReturn)

(***************************************************************************)
(* Specification of the wrappers and of the context argument: Insert,      *)
(* InsertContext, and BulkInsertContext with a context that may carry a    *)
(* value under ConfigKey.  The steps after entry are those of              *)
(* BulkInsertContext.                                                      *)
(***************************************************************************)
\* Insert(db, t): BulkInsertContext(db, context.Background(), 1, t)
Insert ==
    /\ call.pc = "idle"
    /\ \E t \in 1..MaxRows :
          call' = [Enter(InsertList(t), 1, cache) EXCEPT !.fn = "Insert", !.ctx = Background]
    /\ UNCHANGED scanVars
    /\ UNCHANGED <<Mark, BulkInsertStmtThreshold, cache, twin, twinCache>>
    /\ UNCHANGED <<pureVars, lockVars>>

\* InsertContext(db, ctx, t): BulkInsertContext(db, ctx, 1, t)
InsertContext ==
    /\ call.pc = "idle"
    /\ \E t \in 1..MaxRows, ctx \in CtxValues :
          call' = [Enter(InsertList(t), 1, cache) EXCEPT !.fn = "InsertContext", !.ctx = ctx]
    /\ UNCHANGED scanVars
    /\ UNCHANGED <<Mark, BulkInsertStmtThreshold, cache, twin, twinCache>>
    /\ UNCHANGED <<pureVars, lockVars>>

\* BulkInsertContext(db, ctx, bulkSize, list...) with a context drawn from CtxValues
BulkInsertContextCtx ==
    /\ call.pc = "idle"
    /\ \E n \in 0..MaxCtxRows, bulkSize \in 1..MaxBulk, ctx \in CtxValues :
          call' = [Enter(RowList(n), bulkSize, cache) EXCEPT !.fn = "BulkInsertContext",
                                                             !.ctx = ctx]
    /\ UNCHANGED scanVars
    /\ UNCHANGED <<Mark, BulkInsertStmtThreshold, cache, twin, twinCache>>
    /\ UNCHANGED <<pureVars, lockVars>>

NextInsert ==
    \/ Insert
    \/ InsertContext
    \/ BulkInsertContextCtx
    \/ PrepareReturn
    \/ LoopIter
    \/ ExecReturn
    \/ Return

SpecInsert == Init /\ [][NextInsert]_vars

(***************************************************************************)
(* Specification of single-row inserts that share one configuration whose  *)
(* Mark field is assigned between calls, as the tests assign               *)
(* DefaultConfig.Mark.                                                     *)
(***************************************************************************)
\* config.Mark = f, while no insert is running
SetMark ==
    /\ call.pc = "idle"
    /\ \E m \in Marks \ {Mark} : Mark' = m
    /\ UNCHANGED <<BulkInsertStmtThreshold, cache, call, twin, twinCache>>
    /\ UNCHANGED <<pureVars, lockVars, scanVars>>

NextRemark ==
    \/ SetMark
    \/ Insert
    \/ LoopIter
    \/ ExecReturn
    \/ Return

SpecRemark == Init /\ [][NextRemark]_vars

(***************************************************************************)
(* Specification of two calls side by side: the same row list is passed    *)
(* with a non-positive bulkSize (call) and with bulkSize 1 (twin), each    *)
(* against its own copy of the cache, and the handle answers the k-th call *)
(* of both in the same way.                                                *)
(***************************************************************************)
PairCall ==
    /\ call.pc = "idle" /\ twin.pc = "idle"
    /\ \E n \in 0..MaxRows, bulkSize \in (0 - MaxNonPositive)..0 :
          /\ call' = Enter(RowList(n), bulkSize, cache)
          /\ twin' = Enter(RowList(n), 1, twinCache)
    /\ UNCHANGED scanVars
    /\ UNCHANGED <<Mark, BulkInsertStmtThreshold, cache, twinCache>>
    /\ UNCHANGED <<pureVars, lockVars>>

PairPrepareReturn ==
    /\ call.pc = "prepare" /\ twin.pc = "prepare"
    /\ \E r \in PrepareResults :
          /\ call' = AfterPrepare(call, r)
          /\ twin' = AfterPrepare(twin, r)
    /\ UNCHANGED scanVars
    /\ UNCHANGED <<Mark, BulkInsertStmtThreshold, cache, twinCache>>
    /\ UNCHANGED <<pureVars, lockVars>>

PairLoopIter ==
    /\ call.pc = "loop" /\ twin.pc = "loop"
    /\ LET s == Iterate(call, cache)
           t == Iterate(twin, twinCache)
       IN  /\ call' = s.call
           /\ cache' = s.cache
           /\ twin' = t.call
           /\ twinCache' = t.cache
    /\ UNCHANGED scanVars
    /\ UNCHANGED <<Mark, BulkInsertStmtThreshold>>
    /\ UNCHANGED <<pureVars, lockVars>>

PairExecReturn ==
    /\ call.pc = "exec" /\ twin.pc = "exec"
    /\ \E r \in ExecResults(Len(PendingRows(call))) :
          /\ call' = AfterExec(call, r)
          /\ twin' = AfterExec(twin, r)
    /\ UNCHANGED scanVars
    /\ UNCHANGED <<Mark, BulkInsertStmtThreshold, cache, twinCache>>
    /\ UNCHANGED <<pureVars, lockVars>>

PairReturn ==
    /\ call.pc = "done" /\ twin.pc = "done"
    /\ call' = Idle
    /\ twin' = Idle
    /\ UNCHANGED scanVars
    /\ UNCHANGED <<Mark, BulkInsertStmtThreshold, cache, twinCache>>
    /\ UNCHANGED <<pureVars, lockVars>>

NextPair == PairCall \/ PairPrepareReturn \/ PairLoopIter \/ PairExecReturn \/ PairReturn

SpecPair == Init /\ [][NextPair]_vars

(***************************************************************************)
(* Specification of the pure functions of config.go: MarkInsertValueSql    *)
(* and the Mark functions, applied to arguments drawn from bounded sets.   *)
(***************************************************************************)
InitMark ==
    /\ Mark = "MysqlMark"
    /\ BulkInsertStmtThreshold = 0
    /\ InitRest

\* c.MarkInsertValueSql(colLen, rowLen) on a configuration whose Mark is m
Render ==
    /\ \E m \in MarkFuncs, colLen \in 0..MaxCols, rowLen \in 0..MaxRenderRows :
          render' = [done |-> TRUE, m |-> m, colLen |-> colLen, rowLen |-> rowLen,
                     out |-> MarkInsertValueSql(m, colLen, rowLen),
                     cap |-> GrowCap(m, colLen, rowLen)]
    /\ marked' = NoMarked
    /\ UNCHANGED scanVars
    /\ UNCHANGED <<Mark, BulkInsertStmtThreshold, cache, call, twin, twinCache, lockVars>>

\* a Mark function is called on (i, col, row)
ApplyMark ==
    /\ \E m \in MarkFuncs, i \in 0..MaxIndex, col \in 0..MaxCols, row \in 0..MaxRenderRows :
          marked' = [done |-> TRUE, m |-> m, i |-> i, col |-> col, row |-> row,
                     out |-> MarkOf(m, i, col, row)]
    /\ render' = NoRender
    /\ UNCHANGED scanVars
    /\ UNCHANGED <<Mark, BulkInsertStmtThreshold, cache, call, twin, twinCache, lockVars>>

NextMark == Render \/ ApplyMark

SpecMark == InitMark /\ [][NextMark]_vars

(***************************************************************************)
(* Specification of the statement cache of one configuration: goroutines   *)
(* call GetCachedSql, SetCachedSql and GetAndSetCachedSql concurrently.    *)
(* A goroutine is "in" once it holds cacheMu, "unlock" once the method's   *)
(* body has run and the deferred unlock is pending.                        *)
(***************************************************************************)
InitCache ==
    /\ Mark = "MysqlMark"
    /\ BulkInsertStmtThreshold = 0
    /\ InitRest

\* sync.RWMutex.RLock returns when no writer holds the mutex
CanRLock(mu) == mu.writer = 0

\* variant: Lock is granted while readers hold the mutex
CanLock_IgnoreReaders(mu) == mu.writer = 0

\* sync.RWMutex.Lock returns when nobody holds the mutex
CanLock(mu) == mu.writer = 0 /\ mu.readers = {}

\* GetCachedSql(key) is called and r.cacheMu.RLock() returns
GetCachedSqlRLock(p) ==
    /\ gors[p].pc = "idle"
    /\ CanRLock(cacheMu)
    /\ \E key \in Keys :
          gors' = [gors EXCEPT ![p] = [IdleGor EXCEPT !.pc = "in", !.op = "GetCachedSql",
                                                      !.key = key]]
    /\ cacheMu' = [cacheMu EXCEPT !.readers = @ \cup {p}]
    /\ UNCHANGED scanVars
    /\ UNCHANGED <<Mark, BulkInsertStmtThreshold, cache, call, twin, twinCache, pureVars, handed>>

\* SetCachedSql(key, sql) is called and r.cacheMu.Lock() returns
SetCachedSqlLock(p) ==
    /\ gors[p].pc = "idle"
    /\ CanLock(cacheMu)
    /\ \E key \in Keys, sql \in Texts :
          gors' = [gors EXCEPT ![p] = [IdleGor EXCEPT !.pc = "in", !.op = "SetCachedSql",
                                                      !.key = key, !.sql = sql]]
    /\ cacheMu' = [cacheMu EXCEPT !.writer = p]
    /\ UNCHANGED scanVars
    /\ UNCHANGED <<Mark, BulkInsertStmtThreshold, cache, call, twin, twinCache, pureVars, handed>>

\* GetAndSetCachedSql(key, f) is called and r.cacheMu.Lock() returns
GetAndSetCachedSqlLock(p) ==
    /\ gors[p].pc = "idle"
    /\ CanLock(cacheMu)
    /\ \E key \in Keys, f \in Suppliers :
          gors' = [gors EXCEPT ![p] = [IdleGor EXCEPT !.pc = "in", !.op = "GetAndSetCachedSql",
                                                      !.key = key, !.f = f]]
    /\ cacheMu' = [cacheMu EXCEPT !.writer = p]
    /\ UNCHANGED scanVars
    /\ UNCHANGED <<Mark, BulkInsertStmtThreshold, cache, call, twin, twinCache, pureVars, handed>>

\* return r.cache[tableName]
GetCachedSqlBody(p) ==
    /\ gors[p].pc = "in"
    /\ gors[p].op = "GetCachedSql"
    /\ gors' = [gors EXCEPT ![p].pc = "unlock",
                            ![p].hit = gors[p].key \in DOMAIN cache,
                            ![p].got = Lookup(cache, gors[p].key)]
    /\ UNCHANGED scanVars
    /\ UNCHANGED <<Mark, BulkInsertStmtThreshold, cache, call, twin, twinCache, pureVars,
                   cacheMu, handed>>

\* r.cache[tableName] = sql
SetCachedSqlBody(p) ==
    /\ gors[p].pc = "in"
    /\ gors[p].op = "SetCachedSql"
    /\ cache' = Store(cache, gors[p].key, gors[p].sql)
    /\ handed' = [k \in DOMAIN handed \ {gors[p].key} |-> handed[k]]
    /\ gors' = [gors EXCEPT ![p].pc = "unlock"]
    /\ UNCHANGED scanVars
    /\ UNCHANGED <<Mark, BulkInsertStmtThreshold, call, twin, twinCache, pureVars, cacheMu>>

\* the lookup of GetAndSetCachedSql and, on a miss, the two calls of f
GetAndSetCachedSqlBody(p) ==
    LET g == GetAndSetBody(cache, gors[p].key, gors[p].f)
    IN  /\ gors[p].pc = "in"
        /\ gors[p].op = "GetAndSetCachedSql"
        /\ cache' = g.cache
        /\ handed' = IF gors[p].key \in DOMAIN cache THEN handed
                     ELSE Store(handed, gors[p].key, g.sql)
        /\ gors' = [gors EXCEPT ![p].pc = "unlock",
                                ![p].hit = gors[p].key \in DOMAIN cache,
                                ![p].fcalls = g.fcalls,
                                ![p].got = g.sql]
        /\ UNCHANGED scanVars
        /\ UNCHANGED <<Mark, BulkInsertStmtThreshold, call, twin, twinCache, pureVars, cacheMu>>

\* defer r.cacheMu.RUnlock(), and GetCachedSql returns
GetCachedSqlRUnlock(p) ==
    /\ gors[p].pc = "unlock"
    /\ gors[p].op = "GetCachedSql"
    /\ cacheMu' = [cacheMu EXCEPT !.readers = @ \ {p}]
    /\ gors' = [gors EXCEPT ![p] = IdleGor]
    /\ UNCHANGED scanVars
    /\ UNCHANGED <<Mark, BulkInsertStmtThreshold, cache, call, twin, twinCache, pureVars, handed>>

\* defer r.cacheMu.Unlock(), and SetCachedSql or GetAndSetCachedSql returns
WriterUnlock(p) ==
    /\ gors[p].pc = "unlock"
    /\ gors[p].op \in {"SetCachedSql", "GetAndSetCachedSql"}
    /\ cacheMu' = [cacheMu EXCEPT !.writer = 0]
    /\ gors' = [gors EXCEPT ![p] = IdleGor]
    /\ UNCHANGED scanVars
    /\ UNCHANGED <<Mark, BulkInsertStmtThreshold, cache, call, twin, twinCache, pureVars, handed>>

NextCache ==
    \E p \in Procs :
        \/ GetCachedSqlRLock(p)
        \/ SetCachedSqlLock(p)
        \/ GetAndSetCachedSqlLock(p)
        \/ GetCachedSqlBody(p)
        \/ SetCachedSqlBody(p)
        \/ GetAndSetCachedSqlBody(p)
        \/ GetCachedSqlRUnlock(p)
        \/ WriterUnlock(p)

SpecCache == InitCache /\ [][NextCache]_vars

(***************************************************************************)
(* Specification of one configuration shared by a BulkInsertContext call   *)
(* and a goroutine calling the cache methods.  The insert takes cacheMu in *)
(* GetAndSetCachedSql, for a one-row ad hoc batch, and gives it back when  *)
(* GetAndSetCachedSql returns, before the exec call is issued.             *)
(***************************************************************************)
\* the goroutine that calls the cache methods beside the insert
SharedProcs == {1}

\* the goroutine of the BulkInsertContext call, as a holder of cacheMu
Inserter == MaxProcs + 1

\* the next iteration calls GetAndSetCachedSql: an ad hoc batch of one row
NeedsCache(c) ==
    /\ c.i < Len(c.list)
    /\ ~UseStmtFor(c.useStmt, c.i, c.bulkSize, Len(c.list))
    /\ SliceEnd(c.i, c.bulkSize, Len(c.list)) - c.i = 1

\* variant: the mutex stays locked after GetAndSetCachedSql returns
ReleaseLock_Keep(mu) == mu

\* defer r.cacheMu.Unlock() of GetAndSetCachedSql
ReleaseLock(mu) == [mu EXCEPT !.writer = 0]

\* BulkInsertContext(db, ctx, bulkSize, list...) is called
SharedCall ==
    /\ call.pc = "idle"
    /\ \E n \in 0..MaxSharedRows, bulkSize \in 1..MaxBulk :
          call' = [Enter(RowList(n), bulkSize, cache) EXCEPT !.fn = "BulkInsertContext"]
    /\ UNCHANGED <<Mark, BulkInsertStmtThreshold, cache, twin, twinCache>>
    /\ UNCHANGED <<pureVars, lockVars, scanVars>>

\* an iteration that does not touch the cache, or the return after the last batch
LoopIterFree ==
    /\ ~NeedsCache(call)
    /\ LoopIter

\* an iteration for one row reaches GetAndSetCachedSql and r.cacheMu.Lock() returns
LoopLock ==
    /\ call.pc = "loop"
    /\ NeedsCache(call)
    /\ CanLock(cacheMu)
    /\ cacheMu' = [cacheMu EXCEPT !.writer = Inserter]
    /\ call' = [call EXCEPT !.pc = "locked"]
    /\ UNCHANGED <<Mark, BulkInsertStmtThreshold, cache, twin, twinCache>>
    /\ UNCHANGED <<pureVars, gors, handed, scanVars>>

\* the body of GetAndSetCachedSql runs, the mutex is released, and the
\* iteration goes on to its ExecContext call
LoopUnlock ==
    /\ call.pc = "locked"
    /\ LET s == Iterate([call EXCEPT !.pc = "loop"], cache)
           key == InsertOneKey(call.tableName)
       IN  /\ call' = s.call
           /\ cache' = s.cache
           /\ handed' = IF key \in DOMAIN cache THEN handed
                        ELSE Store(handed, key, s.cache[key])
    /\ cacheMu' = ReleaseLock(cacheMu)
    /\ UNCHANGED <<Mark, BulkInsertStmtThreshold, twin, twinCache>>
    /\ UNCHANGED <<pureVars, gors, scanVars>>

NextShared ==
    \/ SharedCall
    \/ PrepareReturn
    \/ LoopIterFree
    \/ LoopLock
    \/ LoopUnlock
    \/ ExecReturn
    \/ Return
    \/ \E p \in SharedProcs :
          \/ GetCachedSqlRLock(p)
          \/ SetCachedSqlLock(p)
          \/ GetAndSetCachedSqlLock(p)
          \/ GetCachedSqlBody(p)
          \/ SetCachedSqlBody(p)
          \/ GetAndSetCachedSqlBody(p)
          \/ GetCachedSqlRUnlock(p)
          \/ WriterUnlock(p)

SpecShared == InitCache /\ [][NextShared]_vars

(***************************************************************************)
(* Specification of the read path: ScanList called on a cursor and a       *)
(* target list, and QueryContext, which calls the handle and then ScanList *)
(* on an empty list.                                                       *)
(***************************************************************************)
InitScan ==
    /\ Mark = "MysqlMark"
    /\ BulkInsertStmtThreshold = 0
    /\ InitRest

\* ScanList(rows, &list) is called
ScanListCall ==
    /\ scan.pc = "idle"
    /\ \E R \in 0..MaxCursor, Y \in 0..MaxCursor, L \in 0..MaxList,
          errAt \in 0..MaxCursor, e \in Errors, ce \in Errors :
          /\ Y <= R
          /\ errAt <= Y
          /\ scan' = [NoScan EXCEPT !.pc = "scan", !.fn = "ScanList", !.rows = R,
                                    !.yield = Y,
                                    !.cursorErr = IF Y = R THEN Nil ELSE ce,
                                    !.errAt = errAt,
                                    !.scanErr = IF errAt = 0 THEN Nil ELSE e,
                                    !.list = OldList(L), !.list0 = OldList(L),
                                    !.nextId = L + 1]
    /\ UNCHANGED <<Mark, BulkInsertStmtThreshold, cache, call, twin, twinCache,
                   pureVars, lockVars>>

\* QueryContext(db, ctx, queryString, vals...) is called and db.QueryContext
\* returns an error
QueryContextFail ==
    /\ scan.pc = "idle"
    /\ \E e \in Errors :
          scan' = [NoScan EXCEPT !.pc = "done", !.fn = "QueryContext", !.err = e,
                                 !.ret = QueryErrReturn(<<>>, e)]
    /\ UNCHANGED <<Mark, BulkInsertStmtThreshold, cache, call, twin, twinCache,
                   pureVars, lockVars>>

\* QueryContext is called, db.QueryContext returns rows, list := make([]T, 0)
QueryContextRows ==
    /\ scan.pc = "idle"
    /\ \E R \in 0..MaxCursor, Y \in 0..MaxCursor, errAt \in 0..MaxCursor,
          e \in Errors, ce \in Errors :
          /\ Y <= R
          /\ errAt <= Y
          /\ scan' = [NoScan EXCEPT !.pc = "scan", !.fn = "QueryContext", !.rows = R,
                                    !.yield = Y,
                                    !.cursorErr = IF Y = R THEN Nil ELSE ce,
                                    !.errAt = errAt,
                                    !.scanErr = IF errAt = 0 THEN Nil ELSE e,
                                    !.nextId = 1]
    /\ UNCHANGED <<Mark, BulkInsertStmtThreshold, cache, call, twin, twinCache,
                   pureVars, lockVars>>

\* one pass of the loop of ScanList
ScanRow ==
    /\ scan.pc = "scan"
    /\ scan' = ScanStep(scan)
    /\ UNCHANGED <<Mark, BulkInsertStmtThreshold, cache, call, twin, twinCache,
                   pureVars, lockVars>>

\* ScanList returns
ScanListReturn ==
    /\ scan.pc = "scanned"
    /\ scan' = AfterScan(scan)
    /\ UNCHANGED <<Mark, BulkInsertStmtThreshold, cache, call, twin, twinCache,
                   pureVars, lockVars>>

\* the caller takes the result; the frame is gone
ScanDone ==
    /\ scan.pc = "done"
    /\ scan' = NoScan
    /\ UNCHANGED <<Mark, BulkInsertStmtThreshold, cache, call, twin, twinCache,
                   pureVars, lockVars>>

NextScan ==
    \/ ScanListCall
    \/ QueryContextFail
    \/ QueryContextRows
    \/ ScanRow
    \/ ScanListReturn
    \/ ScanDone

SpecScan == InitScan /\ [][NextScan]_vars

(***************************************************************************)
(* Properties                                                              *)
(***************************************************************************)
\* the exec calls of a log, in call order (everything but PrepareContext)
Execs(log) == SelectSeq(log, LAMBDA e : e.op # "PrepareContext")

Prepares(log) == SelectSeq(log, LAMBDA e : e.op = "PrepareContext")

Min(a, b) == IF a < b THEN a ELSE b

CeilDiv(n, b) == (n + b - 1) \div b

\* the batch size the claims call normalised
Normalised(bulkSizeArg) == IF bulkSizeArg <= 0 THEN 1 ELSE bulkSizeArg

RECURSIVE SumRa(_)
SumRa(es) == IF Len(es) = 0 THEN 0 ELSE es[1].ra + SumRa(Tail(es))

RECURSIVE ConcatRows(_)
ConcatRows(es) == IF Len(es) = 0 THEN <<>> ELSE es[1].rows \o ConcatRows(Tail(es))

\* the field pointers of rows, row after row, without going through Args
ArgsInRowOrder(rows) ==
    [j \in 1..(Len(rows) * Len(Fields)) |->
        <<rows[((j - 1) \div Len(Fields)) + 1], Fields[((j - 1) % Len(Fields)) + 1]>>]

AllSucceeded(log) == \A k \in 1..Len(log) : log[k].returned /\ log[k].err = Nil

\* C1: BulkInsertContext with an empty row list returns (0, nil), issues no
\* PrepareContext or ExecContext call, for every bulkSize, and leaves the
\* SQL cache as it was at entry.
C1_EmptyListIsNoOp ==
    (call.pc # "idle" /\ Len(call.list) = 0) =>
        /\ call.pc = "done"
        /\ call.ret = [n |-> 0, err |-> Nil]
        /\ call.log = <<>>
        /\ cache = call.cache0

\* an empty call with a non-positive bulkSize has returned, the cache holding an entry
C1_Witness ==
    /\ call.pc = "done"
    /\ Len(call.list) = 0
    /\ call.bulkSizeArg <= 0
    /\ DOMAIN cache # {}

\* C2: for N >= 1 rows and normalised batch size b, the exec calls are issued
\* one after another, the k-th carrying rows list[k*b .. min((k+1)*b, N)-1]
\* and those rows' Args in row order; when no call fails there are exactly
\* ceil(N/b) of them, all but the last of b rows, and their rows
\* concatenated are the input list.
C2_BatchesTileInput ==
    (call.pc # "idle" /\ Len(call.list) >= 1) =>
        LET N == Len(call.list)
            b == Normalised(call.bulkSizeArg)
            ex == Execs(call.log)
        IN  /\ \A k \in 1..(Len(call.log) - 1) : call.log[k].returned
            /\ \A k \in 1..Len(ex) :
                  /\ ex[k].rows = SubSeq(call.list, (k - 1) * b + 1, Min(k * b, N))
                  /\ ex[k].args = ArgsInRowOrder(ex[k].rows)
            /\ (call.pc = "done" /\ AllSucceeded(call.log)) =>
                  /\ Len(ex) = CeilDiv(N, b)
                  /\ \A k \in 1..(Len(ex) - 1) : Len(ex[k].rows) = b
                  /\ ConcatRows(ex) = call.list

\* a call of several batches with a shorter last batch has returned without failure
C2_Witness ==
    /\ call.pc = "done"
    /\ AllSucceeded(call.log)
    /\ Len(Execs(call.log)) >= 3
    /\ Len(call.list) % Normalised(call.bulkSizeArg) # 0
    /\ Normalised(call.bulkSizeArg) >= 2

\* C3: when every batch call succeeds BulkInsertContext returns a nil error
\* and the sum of the affected-row counts of all batch calls, prepared and
\* ad hoc alike; the total is N when each batch reports its number of rows.
C3_TotalIsSumOfAffected ==
    (call.pc = "done" /\ AllSucceeded(call.log)) =>
        /\ call.ret.err = Nil
        /\ call.ret.n = SumRa(Execs(call.log))
        /\ (\A k \in 1..Len(call.log) : call.log[k].ra = Len(call.log[k].rows))
              => call.ret.n = Len(call.list)

\* a successful call through both the prepared statement and an ad hoc
\* statement whose batches reported different counts
C3_Witness ==
    /\ call.pc = "done"
    /\ AllSucceeded(call.log)
    /\ \E j, k \in 1..Len(call.log) :
          /\ call.log[j].op = "stmt.ExecContext"
          /\ call.log[k].op = "ExecContext"
          /\ call.log[j].ra > call.log[k].ra
    /\ call.ret.n >= 3
    /\ call.ret.n < Len(call.list)

\* C4: when the exec call of batch K fails, BulkInsertContext returns the
\* error together with the sum of the affected-row counts of batches 1..K-1.
C4_RunningTotalOnFailure ==
    (call.pc = "done" /\ Len(call.log) > 0
        /\ call.log[Len(call.log)].op # "PrepareContext"
        /\ call.log[Len(call.log)].err # Nil) =>
        /\ call.ret.err = call.log[Len(call.log)].err
        /\ call.ret.n = SumRa(Execs(call.log))

\* C5: after the first failing handle call no further prepare or exec call
\* is issued: a failed call is the last call of the log and ends the
\* BulkInsertContext call.
C5_NoCallAfterFailure ==
    \A k \in 1..Len(call.log) :
        call.log[k].err # Nil => (k = Len(call.log) /\ call.pc = "done")

\* the second of at least three batches failed and the call has returned
C5_Witness ==
    /\ call.pc = "done"
    /\ Len(Execs(call.log)) = 2
    /\ call.log[Len(call.log)].err # Nil
    /\ CeilDiv(Len(call.list), Normalised(call.bulkSizeArg)) >= 3

\* C6: the error BulkInsertContext returns is the error value of the failing
\* handle call, and it returns a nil error only if every handle call it
\* issued succeeded.
C6_ErrorVerbatim ==
    call.pc = "done" =>
        /\ call.ret.err # Nil =>
              /\ Len(call.log) > 0
              /\ call.log[Len(call.log)].err = call.ret.err
        /\ call.ret.err = Nil => AllSucceeded(call.log)

\* an ad hoc exec failed with e2 after a successful batch and the call has returned
C6_Witness ==
    /\ call.pc = "done"
    /\ call.ret.err = "e2"
    /\ Len(call.log) >= 2
    /\ call.log[Len(call.log)].op = "ExecContext"

\* number of tokens tok in a text
RECURSIVE CountTok(_, _)
CountTok(text, tok) ==
    IF Len(text) = 0 THEN 0
    ELSE (IF text[1] = tok THEN 1 ELSE 0) + CountTok(Tail(text), tok)

\* C7: a bulkSize <= 0 is coerced to 1: with the same row list and the same
\* handle outcomes, the call with bulkSize <= 0 issues the same handle calls
\* (statements and parameters) and returns the same result as the call
\* with bulkSize = 1.
C7_NonPositiveBulkSizeIsOne ==
    (call.pc # "idle" /\ call.bulkSizeArg <= 0) =>
        /\ call.bulkSize = twin.bulkSize
        /\ call.log = twin.log
        /\ call.pc = twin.pc
        /\ call.ret = twin.ret
        /\ cache = twinCache

\* both calls have returned after a prepare and several batches, the last one failing
C7_Witness ==
    /\ call.pc = "done" /\ twin.pc = "done"
    /\ call.bulkSizeArg < 0 /\ twin.bulkSizeArg = 1
    /\ Len(call.log) >= 4
    /\ call.log[1].op = "PrepareContext"
    /\ call.ret.err # Nil

\* C8: whenever BulkInsertContext uses a prepared statement it issues
\* exactly one PrepareContext call, before any batch; every batch of exactly
\* bulkSize rows goes through the prepared statement, and an ad hoc
\* ExecContext, with SQL rendered for the rows of its slice, is used only
\* for a final batch shorter than bulkSize.
C8_PreparedOnceFullBatches ==
    (call.pc # "idle" /\ Len(Prepares(call.log)) > 0) =>
        LET N == Len(call.list)
            b == Normalised(call.bulkSizeArg)
        IN  /\ Len(Prepares(call.log)) = 1
            /\ call.log[1].op = "PrepareContext"
            /\ \A k \in 2..Len(call.log) :
                  LET e == call.log[k]
                  IN  /\ Len(e.rows) = b <=> e.op = "stmt.ExecContext"
                      /\ e.op = "ExecContext" =>
                            /\ Len(e.rows) < b
                            /\ e.rows[Len(e.rows)] = call.list[N]
                            /\ CountTok(e.query, "(") = Len(e.rows)
                            /\ Len(e.rows) > 1 =>
                                  e.query = InsertSql(TableName(e.rows[1]), Columns(e.rows[1]),
                                      MarkInsertValueSql(Mark, Len(Columns(e.rows[1])), Len(e.rows)))

\* two full batches went through the prepared statement and the final
\* two-row batch through an ad hoc statement
C8_Witness ==
    /\ call.pc = "done"
    /\ AllSucceeded(call.log)
    /\ Len(call.log) = 4
    /\ call.log[1].op = "PrepareContext"
    /\ call.log[2].op = "stmt.ExecContext"
    /\ call.log[3].op = "stmt.ExecContext"
    /\ call.log[4].op = "ExecContext"
    /\ Len(call.log[4].rows) = 2

\* C9: with the default BulkInsertStmtThreshold (0) BulkInsertContext never
\* calls PrepareContext and every batch is executed through ExecContext on
\* the handle.
C9_DefaultThresholdNeverPrepares ==
    BulkInsertStmtThreshold = 0 =>
        \A k \in 1..Len(call.log) : call.log[k].op = "ExecContext"

\* C10: with BulkInsertStmtThreshold = T >= 1 a prepared statement is used
\* exactly when len(list)/bulkSize (integer division) > T.
C10_PreparedIffQuotientExceedsThreshold ==
    (BulkInsertStmtThreshold >= 1 /\ call.pc # "idle" /\ Len(call.list) >= 1) =>
        (Len(Prepares(call.log)) > 0
            <=> Len(call.list) \div Normalised(call.bulkSizeArg) > BulkInsertStmtThreshold)

\* the value list of an insert statement over k columns: what follows
\* "insert into <table> (<cols>) values "
ValuesOf(query, k) == SubSeq(query, (IF k = 0 THEN 4 ELSE 2 * k + 3) + 1, Len(query))

\* number of placeholder marks in a value list
RECURSIVE CountMarks(_)
CountMarks(text) ==
    IF Len(text) = 0 THEN 0
    ELSE (IF text[1] \in {"(", ")", ",", "null"} THEN 0 ELSE 1) + CountMarks(Tail(text))

GroupLen(colLen) == IF colLen = 0 THEN 3 ELSE 2 * colLen + 1

\* the token a value list of colLen columns holds at position p, for the generator m
TokenAt(m, colLen, p) ==
    LET r == (p - 1) \div (GroupLen(colLen) + 1)
        o == (p - 1) % (GroupLen(colLen) + 1)
    IN  IF o = 0 THEN "("
        ELSE IF o = GroupLen(colLen) - 1 THEN ")"
        ELSE IF o = GroupLen(colLen) THEN ","
        ELSE IF colLen = 0 THEN "null"
        ELSE IF o % 2 = 0 THEN ","
        ELSE MarkOf(m, r * colLen + (o - 1) \div 2, (o - 1) \div 2, r)

\* C12: for every colLen >= 0, rowLen >= 0 and every Mark function,
\* MarkInsertValueSql(colLen, rowLen) is rowLen parenthesised groups joined by
\* single commas, nothing before the first or after the last (empty for
\* rowLen = 0); each group holds colLen marks separated by commas, and the mark
\* of row r, column c is Mark(r*colLen + c, c, r).
C12_ValueListShape ==
    render.done =>
        LET g == GroupLen(render.colLen)
        IN  /\ Len(render.out) = IF render.rowLen = 0 THEN 0
                                 ELSE render.rowLen * g + render.rowLen - 1
            /\ \A p \in 1..Len(render.out) :
                  render.out[p] = TokenAt(render.m, render.colLen, p)
            /\ CountTok(render.out, "(") = render.rowLen
            /\ CountTok(render.out, ")") = render.rowLen
            /\ CountMarks(render.out) = render.rowLen * render.colLen

C12_Witness ==
    /\ render.done
    /\ render.m = "SameNameMark"
    /\ render.colLen = 2
    /\ render.rowLen = 3
    /\ render.out = <<"(", "@id0", ",", "@name", ")", ",",
                      "(", "@id1", ",", "@name", ")", ",",
                      "(", "@id2", ",", "@name", ")">>

\* the marks of a rendered value list, left to right
IsMarkTok(t) == t \notin {"(", ")", ",", "null"}

MarksOf(text) == SelectSeq(text, IsMarkTok)

\* C13: the three standard generators depend only on the global index i:
\* MysqlMark returns "?", PostgresMark returns "$" followed by i+1 in decimal,
\* SqlserverMark returns "@p" followed by i in decimal; so the marks of a
\* rendered fragment are numbered consecutively without gaps, Postgres
\* 1..rows*cols and SqlServer 0..rows*cols-1.
C13_StandardMarksByIndex ==
    /\ (marked.done /\ marked.m \in Marks) =>
          marked.out = CASE marked.m = "MysqlMark" -> "?"
                         [] marked.m = "PostgresMark" -> "$" \o ToString(marked.i + 1)
                         [] marked.m = "SqlserverMark" -> "@p" \o ToString(marked.i)
    /\ (render.done /\ render.m \in Marks) =>
          LET M == MarksOf(render.out)
          IN  /\ Len(M) = render.rowLen * render.colLen
              /\ \A k \in 1..Len(M) :
                    M[k] = CASE render.m = "MysqlMark" -> "?"
                             [] render.m = "PostgresMark" -> "$" \o ToString(k)
                             [] render.m = "SqlserverMark" -> "@p" \o ToString(k - 1)

C13_Witness ==
    /\ marked.done
    /\ marked.m = "PostgresMark"
    /\ marked.i = 9
    /\ marked.col = 0
    /\ marked.row = 3
    /\ marked.out = "$10"

\* the text a token sequence stands for
RECURSIVE Concat(_)
Concat(text) == IF Len(text) = 0 THEN "" ELSE text[1] \o Concat(Tail(text))

\* n copies of "(null)" joined by ","
RECURSIVE NullGroups(_)
NullGroups(n) ==
    IF n = 0 THEN "" ELSE IF n = 1 THEN "(null)" ELSE "(null)," \o NullGroups(n - 1)

\* C14: with colLen = 0, MarkInsertValueSql renders each of the rowLen groups as
\* the literal "(null)" (rowLen = 3 gives "(null),(null),(null)"); with
\* colLen > 0 and a standard generator, the text null is in no group.
C14_NullBodyOnlyWithoutColumns ==
    /\ (render.done /\ render.colLen = 0) =>
          /\ Concat(render.out) = NullGroups(render.rowLen)
          /\ CountTok(render.out, "null") = render.rowLen
    /\ (render.done /\ render.colLen > 0 /\ render.m \in Marks) =>
          /\ CountTok(render.out, "null") = 0
          /\ \A p \in 1..Len(render.out) :
                render.out[p] \in {"(", ")", ",", "?"}
                                  \cup {"$" \o ToString(n) : n \in 1..(render.rowLen * render.colLen)}
                                  \cup {"@p" \o ToString(n) : n \in 0..(render.rowLen * render.colLen)}

C14_Witness ==
    /\ render.done
    /\ render.colLen = 0
    /\ render.rowLen = 3
    /\ Concat(render.out) = "(null),(null),(null)"

\* the value list of rowLen rows of colLen columns, position by position
ValueListRef(m, colLen, rowLen) ==
    [p \in 1..(IF rowLen = 0 THEN 0 ELSE rowLen * GroupLen(colLen) + rowLen - 1) |->
        TokenAt(m, colLen, p)]

\* the names joined by "," as one text
RECURSIVE CommaJoined(_)
CommaJoined(names) ==
    IF Len(names) = 0 THEN ""
    ELSE IF Len(names) = 1 THEN names[1]
    ELSE names[1] \o "," \o CommaJoined(Tail(names))

\* the statement text for rowLen rows
StatementText(m, tableName, cols, rowLen) ==
    "insert into " \o tableName \o " (" \o CommaJoined(cols) \o ") values "
        \o Concat(ValueListRef(m, Len(cols), rowLen))

\* C15: every statement text BulkInsertContext sends, prepared or ad hoc, is
\* "insert into " + table + " (" + the column names joined by "," + ") values "
\* + the rendered value list, of bulkSize rows for the prepared statement and of
\* the slice's row count for an ad hoc statement.
C15_StatementText ==
    \A n \in 1..Len(call.log) :
        LET e == call.log[n]
            t == call.list[1]
        IN  /\ e.op = "PrepareContext" =>
                  Concat(e.query) = StatementText(Mark, TableName(t), Columns(t),
                                                  Normalised(call.bulkSizeArg))
            /\ e.op = "ExecContext" =>
                  Concat(e.query) = StatementText(Mark, TableName(t), Columns(t), Len(e.rows))

C15_Witness ==
    /\ call.pc = "done"
    /\ Mark = "PostgresMark"
    /\ Len(call.log) = 4
    /\ call.log[1].op = "PrepareContext"
    /\ Concat(call.log[1].query) = "insert into users (id,name,age) values ($1,$2,$3),($4,$5,$6)"
    /\ call.log[4].op = "ExecContext"
    /\ Concat(call.log[4].query) = "insert into users (id,name,age) values ($1,$2,$3)"

\* goroutine p holds cacheMu
InCS(p) == gors[p].pc \in {"in", "unlock"}

IsWriter(p) == gors[p].op \in {"SetCachedSql", "GetAndSetCachedSql"}

\* goroutine p has run the body of GetAndSetCachedSql and found no entry
Populated(p) ==
    gors[p].pc = "unlock" /\ gors[p].op = "GetAndSetCachedSql" /\ ~gors[p].hit

\* C16: GetAndSetCachedSql(key, f) on a key that is not in the cache invokes
\* the supplier f exactly once, stores its result under key, and returns that
\* result.
C16_SupplierInvokedOnce ==
    \A p \in Procs :
        Populated(p) =>
            /\ gors[p].fcalls = 1
            /\ gors[p].key \in DOMAIN cache
            /\ cache[gors[p].key] = gors[p].got

\* C17: once GetAndSetCachedSql(key, f) has populated a key and returned v,
\* every later GetCachedSql(key) and GetAndSetCachedSql(key, g) returns v, for
\* every supplier f and until SetCachedSql(key, .) overwrites it: the value
\* handed to the first caller and the value stored are the same.
C17_HandedValueIsStored ==
    /\ \A k \in DOMAIN handed : k \in DOMAIN cache /\ cache[k] = handed[k]
    /\ \A p \in Procs :
          (/\ gors[p].pc = "unlock"
           /\ gors[p].op \in {"GetCachedSql", "GetAndSetCachedSql"}
           /\ gors[p].key \in DOMAIN handed) => gors[p].got = handed[gors[p].key]

\* C18: under every interleaving of GetCachedSql, SetCachedSql and
\* GetAndSetCachedSql calls on one configuration, a writer (SetCachedSql or
\* GetAndSetCachedSql) is never inside its critical section together with a
\* reader or another writer; several GetCachedSql readers may be inside
\* theirs together.
C18_WritersExclusive ==
    \A p \in Procs :
        (InCS(p) /\ IsWriter(p)) => \A q \in Procs \ {p} : ~InCS(q)

C18_Witness ==
    \E p \in Procs, q \in Procs :
        /\ p # q
        /\ InCS(p) /\ gors[p].op = "GetCachedSql"
        /\ InCS(q) /\ gors[q].op = "GetCachedSql"
        /\ cacheMu.readers = {p, q}
        /\ cache # EmptyCache

\* C19: Insert and InsertContext behave as BulkInsertContext with bulkSize 1
\* and a one-element list: they issue exactly one ExecContext call carrying
\* the row's Args, never call PrepareContext, and return that call's
\* affected-row count or its error.
C19_InsertIsOneExec ==
    (call.fn \in {"Insert", "InsertContext"}) =>
        /\ call.bulkSize = 1
        /\ Len(call.list) = 1
        /\ Len(call.log) <= 1
        /\ \A k \in 1..Len(call.log) :
              /\ call.log[k].op = "ExecContext"
              /\ call.log[k].rows = call.list
              /\ call.log[k].args = Args(call.list[1])
        /\ call.pc = "done" =>
              /\ Len(call.log) = 1
              /\ call.log[1].returned
              /\ call.ret = IF call.log[1].err # Nil
                            THEN [n |-> 0, err |-> call.log[1].err]
                            ELSE [n |-> call.log[1].ra, err |-> Nil]

C19_Witness ==
    /\ call.fn = "InsertContext"
    /\ call.pc = "done"
    /\ call.list = <<2>>
    /\ Len(call.log) = 1
    /\ call.log[1].op = "ExecContext"
    /\ call.log[1].args = Args(2)
    /\ call.ret = [n |-> 1, err |-> Nil]

\* the Mark the statements of the running call are to be rendered with: that
\* of the configuration in the context, else that of the default configuration
ContextMark(ctx) == IF findFromContext(ctx) # NilConfig THEN findFromContext(ctx).mark ELSE Mark

\* C20: when the context passed to InsertContext or BulkInsertContext carries
\* a configuration pointer under ConfigKey, the insert renders its SQL with
\* that configuration; when the key is absent or holds a value that is not a
\* configuration pointer, the default configuration is used.
C20_ContextConfigUsed ==
    (call.fn \in {"InsertContext", "BulkInsertContext"}) =>
        \A k \in 1..Len(call.log) :
            LET e == call.log[k]
                t == call.list[1]
            IN  /\ e.op = "PrepareContext" =>
                      Concat(e.query) = StatementText(ContextMark(call.ctx), TableName(t),
                                                      Columns(t), call.bulkSize)
                /\ e.op = "ExecContext" =>
                      Concat(e.query) = StatementText(ContextMark(call.ctx), TableName(t),
                                                      Columns(t), Len(e.rows))

Max(a, b) == IF a > b THEN a ELSE b

\* C21: ScanList over a cursor of R rows and a target list of initial length L
\* overwrites positions 0..min(R,L)-1 with the scanned rows in cursor order,
\* appends rows L..R-1 when R > L, leaves positions R..L-1 untouched when
\* R < L, and ends with length max(L, R); each stored element is a freshly
\* created instance.
C21_ScanListFillsThenAppends ==
    (scan.fn = "ScanList" /\ scan.pc = "done" /\ scan.err = Nil /\ scan.yield = scan.rows) =>
        LET R == scan.rows
            L == Len(scan.list0)
        IN  /\ Len(scan.list) = Max(L, R)
            /\ \A k \in 1..R :
                  /\ scan.list[k].val = k
                  /\ \A j \in 1..L : scan.list[k].id # scan.list0[j].id
                  /\ \A j \in 1..R : j # k => scan.list[j].id # scan.list[k].id
            /\ \A k \in (R + 1)..L : scan.list[k] = scan.list0[k]

C21_Witness ==
    /\ scan.fn = "ScanList"
    /\ scan.pc = "done"
    /\ scan.err = Nil
    /\ scan.rows = 3
    /\ Len(scan.list0) = 1
    /\ Len(scan.list) = 3
    /\ scan.list[1].val = 1
    /\ scan.list[3].val = 3

\* C27: when scanning row i of a result fails, ScanList returns that scan
\* error at once without reading a later row, and QueryContext returns a nil
\* list with the error, never a partial list; a failed QueryContext call on the
\* handle likewise returns (nil, err).
C27_ScanErrorAborts ==
    /\ (scan.pc \in {"scanned", "done"} /\ scan.errAt > 0) =>
          /\ scan.err = scan.scanErr
          /\ scan.reads = scan.errAt
    /\ (scan.fn = "QueryContext" /\ scan.pc = "done" /\ scan.err # Nil) =>
          /\ scan.ret.isNil
          /\ scan.ret.list = <<>>
          /\ scan.ret.err = scan.err
    /\ (scan.fn = "QueryContext" /\ scan.pc = "done" /\ scan.err = Nil) =>
          /\ ~scan.ret.isNil
          /\ scan.ret.err = Nil
          /\ scan.ret.list = scan.list

C27_Witness ==
    /\ scan.fn = "QueryContext"
    /\ scan.pc = "done"
    /\ scan.rows = 3
    /\ scan.errAt = 2
    /\ scan.reads = 2
    /\ Len(scan.list) = 1
    /\ scan.ret = QueryResult(<<>>, TRUE, "e1")

\* goroutine p runs the body of its cache method in this step
BodyStep(p) == gors[p].pc = "in" /\ gors'[p].pc = "unlock"

\* C22: GetAndSetCachedSql(key, f) on a key already present returns the cached
\* value without invoking f and leaves the whole cache unchanged; GetCachedSql
\* never changes the cache.
C22_HitLeavesCacheAlone ==
    [][\A p \in Procs :
          /\ (/\ BodyStep(p)
              /\ gors[p].op = "GetAndSetCachedSql"
              /\ gors[p].key \in DOMAIN cache) =>
                  /\ cache' = cache
                  /\ gors'[p].fcalls = 0
                  /\ gors'[p].got = cache[gors[p].key]
          /\ (/\ gors'[p] # gors[p]
              /\ "GetCachedSql" \in {gors[p].op, gors'[p].op}) => cache' = cache]_vars

C22_Witness ==
    \E p \in Procs :
        /\ gors[p].pc = "unlock"
        /\ gors[p].op = "GetAndSetCachedSql"
        /\ gors[p].hit
        /\ gors[p].fcalls = 0
        /\ gors[p].f = <<"sqlB", "sqlB">>
        /\ gors[p].got = "sqlA"
        /\ cache[gors[p].key] = "sqlA"

\* C23: the cache never evicts: across every sequence and interleaving of
\* GetCachedSql, SetCachedSql, GetAndSetCachedSql and insert operations, a key
\* that is in the cache is in it in every later state; the set of keys only
\* grows.
C23_CacheNeverEvicts == [][DOMAIN cache \subseteq DOMAIN cache']_vars

C23_Witness ==
    /\ DOMAIN cache = Keys
    /\ call.pc = "done"
    /\ Len(call.log) = 1
    /\ call.log[1].op = "ExecContext"
    /\ Len(call.log[1].rows) = 1
    /\ gors[1].pc = "unlock"
    /\ gors[1].op = "SetCachedSql"
    /\ gors[1].key = "users_insert_one"

\* C24: in every reachable state in which a BulkInsertContext call is inside a
\* handle call (PrepareContext, the prepared statement's exec or ExecContext),
\* the call holds neither the read lock nor the write lock of the
\* configuration's cache.
C24_NoLockAcrossHandleCall ==
    call.pc \in {"prepare", "exec"} =>
        /\ cacheMu.writer # Inserter
        /\ Inserter \notin cacheMu.readers

C24_Witness ==
    /\ call.pc = "exec"
    /\ call.log[Len(call.log)].op = "ExecContext"
    /\ Len(PendingRows(call)) = 1
    /\ "users_insert_one" \in DOMAIN cache
    /\ cacheMu.writer = 1

\* C25: BulkInsertContext reads or writes the SQL cache only for an ad hoc
\* batch of exactly one row, under the key <table>_insert_one; multi-row ad hoc
\* batches and batches run through the prepared statement leave the cache
\* unchanged, and an insert writes no other key.
C25_CacheOnlyForOneRowBatch ==
    /\ [](DOMAIN cache \subseteq {"users_insert_one"})
    /\ [][/\ cache' # cache =>
                /\ call.pc = "loop"
                /\ call'.pc = "exec"
                /\ call'.log[Len(call'.log)].op = "ExecContext"
                /\ Len(PendingRows(call')) = 1
                /\ DOMAIN cache' = DOMAIN cache \cup {"users_insert_one"}
                /\ \A k \in DOMAIN cache : cache'[k] = cache[k]
          /\ (/\ call.pc = "loop"
              /\ call'.pc = "exec"
              /\ call'.log[Len(call'.log)].op = "ExecContext"
              /\ Len(PendingRows(call')) = 1) =>
                /\ "users_insert_one" \in DOMAIN cache'
                /\ call'.log[Len(call'.log)].query = cache'["users_insert_one"]]_vars

C25_Witness ==
    /\ call.pc = "exec"
    /\ call.cache0 = EmptyCache
    /\ Len(call.log) = 2
    /\ call.log[1].op = "ExecContext"
    /\ Len(call.log[1].rows) = 2
    /\ call.log[2].op = "ExecContext"
    /\ Len(call.log[2].rows) = 1
    /\ DOMAIN cache = {"users_insert_one"}

C28_Terminates ==
    /\ [](call.pc # "idle" =>
            /\ Len(Prepares(call.log)) <= 1
            /\ Len(Execs(call.log)) <= CeilDiv(Len(call.list), Normalised(call.bulkSizeArg)))
    /\ [][(call.pc = "exec" /\ call'.pc = "loop") => call'.i > call.i]_vars
    /\ (call.pc # "idle") ~> (call.pc = "done")

C28_Witness ==
    /\ call.pc = "done"
    /\ call.bulkSizeArg = 0 - MaxNonPositive
    /\ Len(call.list) = MaxRows
    /\ Len(Prepares(call.log)) = 1
    /\ Len(Execs(call.log)) = MaxRows
    /\ call.ret.err = Nil

\* C29: for every sequence of inserts sharing one configuration, the text
\* executed for a single-row ad hoc batch is "insert into T (cols) values " +
\* MarkInsertValueSql(len(cols), 1), rendered from the row's current Columns()
\* and the configuration's current Mark, also after earlier single-row inserts
\* into the same table name made with a different Mark.
C29_OneRowTextIsCurrent ==
    \A k \in 1..Len(call.log) :
        (call.log[k].op = "ExecContext" /\ Len(call.log[k].rows) = 1) =>
            Concat(call.log[k].query) =
                StatementText(Mark, TableName(call.list[1]), Columns(call.list[1]), 1)

\* PrepareContext returned a statement to the running call
PreparedOk(c) ==
    /\ Len(c.log) >= 1
    /\ c.log[1].op = "PrepareContext"
    /\ c.log[1].returned
    /\ c.log[1].err = Nil

\* C30: a statement successfully prepared by BulkInsertContext is closed
\* exactly once before BulkInsertContext returns, on every exit path (all
\* batches succeeded, a prepared-statement exec failed, or the ad hoc exec of
\* the final short batch failed); no prepared statement stays open after the
\* call returns.
C30_StatementClosedOnce ==
    /\ (call.pc = "done" /\ PreparedOk(call)) =>
          /\ call.stmt = "closed"
          /\ call.closes = 1
    /\ (call.pc = "done" /\ ~PreparedOk(call)) =>
          /\ call.stmt = "nil"
          /\ call.closes = 0
    /\ (call.pc \in {"loop", "exec"} /\ PreparedOk(call)) =>
          /\ call.stmt = "open"
          /\ call.closes = 0

C30_Witness ==
    /\ call.pc = "done"
    /\ PreparedOk(call)
    /\ call.stmt = "closed"
    /\ call.closes = 1
    /\ Len(call.list) = 5
    /\ call.bulkSize = 2
    /\ Len(call.log) = 4
    /\ call.log[4].op = "ExecContext"
    /\ call.log[4].err = "e1"

\* C31: with every row's Args() as long as Columns(), for every exec call
\* BulkInsertContext issues, the number of placeholder marks in the statement
\* text equals the number of values passed: the prepared statement (bulkSize
\* rows of marks) is executed only with bulkSize rows of values, and an ad hoc
\* statement has as many rows of marks as its slice has rows.
C31_MarksMatchValues ==
    \A n \in 1..Len(call.log) :
        LET e == call.log[n]
            k == Len(Columns(call.list[1]))
        IN  /\ e.op = "stmt.ExecContext" =>
                  /\ call.log[1].op = "PrepareContext"
                  /\ Len(e.rows) = call.bulkSize
                  /\ CountMarks(ValuesOf(call.log[1].query, k)) = Len(e.args)
                  /\ CountTok(ValuesOf(call.log[1].query, k), "(") = Len(e.rows)
            /\ e.op = "ExecContext" =>
                  /\ CountMarks(ValuesOf(e.query, k)) = Len(e.args)
                  /\ CountTok(ValuesOf(e.query, k), "(") = Len(e.rows)

C31_Witness ==
    /\ call.pc = "exec"
    /\ Len(call.list) = 7
    /\ call.bulkSize = 3
    /\ Len(call.log) = 4
    /\ call.log[3].op = "stmt.ExecContext"
    /\ Len(call.log[3].args) = 9
    /\ CountMarks(ValuesOf(call.log[1].query, 3)) = 9
    /\ call.log[4].op = "ExecContext"
    /\ Len(call.log[4].args) = 3
    /\ CountMarks(ValuesOf(call.log[4].query, 3)) = 3

\* C32: when several goroutines call GetAndSetCachedSql concurrently for the
\* same key, absent at first, only the one that first acquires the write lock
\* runs its supplier; every other caller finds the key present and returns the
\* stored value without running its supplier, and none of them overwrites the
\* stored value.
C32_OnlyFirstCallerRunsSupplier ==
    /\ [][\A p \in Procs :
             (BodyStep(p) /\ gors[p].op = "GetAndSetCachedSql") =>
                 /\ gors'[p].fcalls > 0 <=> gors[p].key \notin DOMAIN cache
                 /\ gors[p].key \in DOMAIN cache =>
                       /\ gors'[p].got = cache[gors[p].key]
                       /\ cache'[gors[p].key] = cache[gors[p].key]
                 /\ gors[p].key \in DOMAIN cache']_vars
    /\ \A k \in Keys : [](k \in DOMAIN cache => [](k \in DOMAIN cache))

C32_Witness ==
    \E p \in Procs, q \in Procs :
        /\ p # q
        /\ gors[p].pc = "unlock"
        /\ gors[p].op = "GetAndSetCachedSql"
        /\ gors[p].key = "orders_insert_one"
        /\ gors[p].hit
        /\ gors[p].fcalls = 0
        /\ gors[p].key \in DOMAIN handed
        /\ gors[p].got = cache[gors[p].key]
        /\ gors[p].got \notin {gors[p].f[1], gors[p].f[2]}
        /\ gors[q].pc = "idle"

\* C33: QueryContext returns a nil error only when every row of the result
\* set was read and scanned; when the iteration stops early because the cursor
\* itself fails (rows.Next returns false with an iteration error pending), the
\* failure is reported to the caller, not a shorter list with a nil error.
C33_CursorFailureReported ==
    (scan.fn = "QueryContext" /\ scan.pc = "done") =>
        /\ scan.ret.err = Nil =>
              /\ scan.reads = scan.rows
              /\ Len(scan.ret.list) = scan.rows
        /\ (scan.cursorErr # Nil /\ scan.errAt = 0) => scan.ret.err = scan.cursorErr

\* len of the string a token sequence stands for
RECURSIVE ByteLen(_)
ByteLen(text) == IF Len(text) = 0 THEN 0 ELSE Len(text[1]) + ByteLen(Tail(text))

\* C34: the capacity MarkInsertValueSql reserves up front,
\* 2 + (markLen+1)*colLen*rowLen with markLen = len(Mark(0,0,0)), is at least
\* the length of the rendered output whenever every mark has length markLen,
\* for all colLen >= 0 and rowLen >= 0, so the buffer never grows during the
\* build.
C34_ReservedCapacitySuffices ==
    (/\ render.done
     /\ \A k \in 1..Len(MarksOf(render.out)) :
           Len(MarksOf(render.out)[k]) = Len(MarkOf(render.m, 0, 0, 0))) =>
        ByteLen(render.out) <= render.cap

====
